---- MODULE Spec2Model ----
(***************************************************************************)
(* Model of the handover status service (src/handover_app.py): the event   *)
(* documents kept in the Elasticsearch index, the status query             *)
(* handover_result, the release listing handover_results with its          *)
(* matcher valid_handover, and the purge delete_handover.                  *)
(*                                                                         *)
(* Spec and SpecList serve every request in one step; SpecConcurrent and   *)
(* SpecFailing take a handler one search at a time, with writers in        *)
(* between and with searches that fail; SpecListConcurrent takes the       *)
(* listing one search at a time; SpecPage cuts the candidate query to a    *)
(* page smaller than the index; SpecMatch applies the matcher.             *)
(*                                                                         *)
(* The job applications (src/hc_app.py, src/metadata_app.py): the          *)
(* job-result request with its format dispatch (SpecJobs) and the lazily   *)
(* constructed Job Queue client get_hive (SpecHive).                       *)
(*                                                                         *)
(* Strings that the code inspects character by character (src_uri,         *)
(* tgt_uri, release) are sequences of one-character strings.  Dictionaries *)
(* are records; a key that a document does not carry is a field the        *)
(* record does not have, so that doc[...][key] on it is a KeyError.        *)
(***************************************************************************)
EXTENDS Integers, Sequences, FiniteSets, TLC

VARIABLES store, next_id, last, errored, purged, index_exists, call, seen,
          hive, instances, threads

\* the state of the job applications (src/hc_app.py, src/metadata_app.py)
jobs == <<hive, instances, threads>>

vars == <<store, next_id, last, errored, purged, index_exists, call, seen, jobs>>

(***************************************************************************)
(* Bounds of the model.                                                    *)
(***************************************************************************)
\* number of documents the index ever receives
MaxDocs == 2
\* report_time values are 1..MaxTime
MaxTime == 2
\* number of pieces an identifier handed to the matcher is made of
MaxPieces == 4
\* the "size" of the candidate query in the listing scaled down to an index
\* of MaxDocs documents (SpecPage); the code asks for 1000
MaxPage == 1

(***************************************************************************)
(* Characters and strings.                                                 *)
(***************************************************************************)
Digits == {"0", "1", "2", "3", "4", "5", "6", "7", "8", "9"}

NL == "\n"

DigitVal(c) ==
    CASE c = "0" -> 0 [] c = "1" -> 1 [] c = "2" -> 2 [] c = "3" -> 3
      [] c = "4" -> 4 [] c = "5" -> 5 [] c = "6" -> 6 [] c = "7" -> 7
      [] c = "8" -> 8 [] c = "9" -> 9

\* int(s) for a non-empty string of decimal digits
RECURSIVE int(_)
int(s) ==
    IF Len(s) = 0 THEN 0
    ELSE 10 * int(SubSeq(s, 1, Len(s) - 1)) + DigitVal(s[Len(s)])

RECURSIVE Concat(_)
Concat(ss) == IF Len(ss) = 0 THEN <<>> ELSE Head(ss) \o Concat(Tail(ss))

(***************************************************************************)
(* re.match(r'^.*?_(?P<first>\d+)(_(?P<second>\d+))?(_(\d+))?$', s)         *)
(*                                                                         *)
(* DigitsEnd(s, i) is where the run of digits starting at s[i] ends (i - 1 *)
(* when s[i] is no digit).  AtEnd(s, i) is what `$` accepts with i the     *)
(* next unread position: the end of the string, or a single newline that   *)
(* ends it.  TailParses(s, i) is the set of ways the part of the pattern   *)
(* after `.*?` matches s from position i on to `$`; the lazy `.*?` takes   *)
(* the smallest such i whose prefix holds no newline (`.` does not match   *)
(* one).                                                                   *)
(***************************************************************************)
RECURSIVE DigitsEnd(_, _)
DigitsEnd(s, i) ==
    IF i <= Len(s) /\ s[i] \in Digits THEN DigitsEnd(s, i + 1) ELSE i - 1

AtEnd(s, i) == i = Len(s) + 1 \/ (i = Len(s) /\ s[i] = NL)

\* the ends e of `_\d+` matched from position i: i is "_", i+1..e are digits
SegEnds(s, i) ==
    IF i <= Len(s) /\ s[i] = "_"
    THEN {e \in (i + 1)..DigitsEnd(s, i + 1) : TRUE}
    ELSE {}

TailParses(s, i) ==
    LET one == {[first |-> SubSeq(s, i + 1, e1), has_second |-> FALSE, second |-> <<>>] :
                   e1 \in {e \in SegEnds(s, i) : AtEnd(s, e + 1)}}
        two == UNION {UNION {
                 IF \/ AtEnd(s, e2 + 1)
                    \/ \E e3 \in SegEnds(s, e2 + 1) : AtEnd(s, e3 + 1)
                 THEN {[first |-> SubSeq(s, i + 1, e1), has_second |-> TRUE,
                        second |-> SubSeq(s, e1 + 2, e2)]}
                 ELSE {} : e2 \in SegEnds(s, e1 + 1)} : e1 \in SegEnds(s, i)}
    IN  one \cup two

NoMatch == [matched |-> FALSE]

re_match(s) ==
    LET starts == {i \in 1..Len(s) :
                     /\ TailParses(s, i) # {}
                     /\ \A k \in 1..(i - 1) : s[k] # NL}
    IN  IF starts = {} THEN NoMatch
        ELSE LET i == CHOOSE j \in starts : \A k \in starts : j <= k
                 \* greedy \d+ and greedy optional groups: the longest first,
                 \* then a second group when one can be had
                 ps == TailParses(s, i)
                 best == CHOOSE p \in ps :
                            \A q \in ps : /\ Len(q.first) <= Len(p.first)
                                          /\ (Len(q.first) = Len(p.first)
                                                => (q.has_second => p.has_second))
                                          /\ (Len(q.first) = Len(p.first)
                                                /\ q.has_second /\ p.has_second
                                                => Len(q.second) <= Len(p.second))
             IN  [matched |-> TRUE, first |-> best.first,
                  has_second |-> best.has_second, second |-> best.second]

(***************************************************************************)
(* The documents of the index.  A document is                              *)
(*   [_id, report_type, report_time, message, params]                      *)
(* with message a sequence of words and params a record that always        *)
(* carries handover_token, src_uri, tgt_uri, contact and comment and may   *)
(* carry progress_complete and progress_total.                             *)
(***************************************************************************)
Tokens == {"T1", "T2"}

ReportTypes == {"INFO", "ERROR"}

Str93 == <<"9", "3">>
Str90 == <<"9", "0">>
Uri93 == <<"c", "_", "9", "3", "_", "1">>
Uri90 == <<"c", "_", "9", "0", "_", "1">>

\* the job a token stands for: what was handed over, by whom
Job(token) ==
    IF token = "T1"
    THEN [src_uri |-> Uri93, tgt_uri |-> Uri93, contact |-> "ann", comment |-> "tiger"]
    ELSE [src_uri |-> Uri90, tgt_uri |-> Uri90, contact |-> "bob", comment |-> "panda"]

BaseParams(token) ==
    [handover_token |-> token, src_uri |-> Job(token).src_uri,
     tgt_uri |-> Job(token).tgt_uri, contact |-> Job(token).contact,
     comment |-> Job(token).comment]

WithProgress(p, c, t) ==
    [handover_token |-> p.handover_token, src_uri |-> p.src_uri, tgt_uri |-> p.tgt_uri,
     contact |-> p.contact, comment |-> p.comment,
     progress_complete |-> c, progress_total |-> t]

\* what the writers report: the submission (no progress yet), steps with
\* progress_complete <= progress_total, and failures
EventKinds ==
    {[report_type |-> "INFO", message |-> <<"Handling", "spec">>, progress |-> <<>>],
     [report_type |-> "INFO", message |-> <<"Copying">>, progress |-> <<1, 2>>],
     [report_type |-> "ERROR", message |-> <<"Failed">>, progress |-> <<1, 2>>],
     [report_type |-> "ERROR", message |-> <<"Error", "handling", "db">>, progress |-> <<>>]}

ParamsOf(token, progress) ==
    IF progress = <<>> THEN BaseParams(token)
    ELSE WithProgress(BaseParams(token), progress[1], progress[2])

Has(d, key) == key \in DOMAIN d

(***************************************************************************)
(* es.search(index, body): the documents the query matches, sorted by      *)
(* report_time descending, the first `size` of them.  The body names no    *)
(* second sort key, so documents of equal report_time come in any order.   *)
(***************************************************************************)
Take(h, size) == IF Len(h) <= size THEN h ELSE SubSeq(h, 1, size)

\* the hits in ascending order of report_time
SortedHitsAscending(matching) ==
    LET n == Cardinality(matching)
    IN  {h \in [1..n -> matching] :
           /\ \A i, j \in 1..n : i # j => h[i] # h[j]
           /\ \A i, j \in 1..n : i < j => h[i].report_time <= h[j].report_time}

SortedHits(matching) ==
    LET n == Cardinality(matching)
    IN  {h \in [1..n -> matching] :
           /\ \A i, j \in 1..n : i # j => h[i] # h[j]
           /\ \A i, j \in 1..n : i < j => h[i].report_time >= h[j].report_time}

\* a search whose body lost its "sort": the hits come in any order
es_search_unsorted(matching, size) ==
    LET n == Cardinality(matching)
    IN  {Take(h, size) : h \in {g \in [1..n -> matching] :
                                  \A i, j \in 1..n : i # j => g[i] # g[j]}}

es_search(matching, size) == {Take(h, size) : h \in SortedHits(matching)}

\* "must": term params.handover_token.keyword, term report_type.keyword
TermQuery(docs, token, type) ==
    {d \in docs : d.params.handover_token = token /\ d.report_type = type}

(***************************************************************************)
(* What a request handler hands back: the handler, its argument, the HTTP  *)
(* status and the JSON list of the body (empty on an error response).      *)
(***************************************************************************)
Response(op, token, release, status, body) ==
    [op |-> op, token |-> token, release |-> release, status |-> status, body |-> body]

RequiredKeys == {"comment", "handover_token", "contact", "src_uri", "tgt_uri"}

ProgressKeys == {"progress_complete", "progress_total"}

\* the result dict built from an ERROR hit (lines 175-182)
ErrorView(doc) ==
    [id |-> doc._id, message |-> doc.message, comment |-> doc.params.comment,
     handover_token |-> doc.params.handover_token, contact |-> doc.params.contact,
     src_uri |-> doc.params.src_uri, tgt_uri |-> doc.params.tgt_uri,
     report_time |-> doc.report_time]

\* the INFO result dict with the two progress values taken from each
\* other's key
InfoViewSwapped(doc) ==
    [id |-> doc._id, message |-> doc.message, comment |-> doc.params.comment,
     handover_token |-> doc.params.handover_token, contact |-> doc.params.contact,
     src_uri |-> doc.params.src_uri, tgt_uri |-> doc.params.tgt_uri,
     progress_complete |-> doc.params.progress_total,
     progress_total |-> doc.params.progress_complete,
     report_time |-> doc.report_time]

\* the result dict built from an INFO hit (lines 190-199)
InfoView(doc) ==
    [id |-> doc._id, message |-> doc.message, comment |-> doc.params.comment,
     handover_token |-> doc.params.handover_token, contact |-> doc.params.contact,
     src_uri |-> doc.params.src_uri, tgt_uri |-> doc.params.tgt_uri,
     progress_complete |-> doc.params.progress_complete,
     progress_total |-> doc.params.progress_total,
     report_time |-> doc.report_time]

HandoverReply(handover_token, status, body) ==
    Response("handover_result", handover_token, <<>>, status, body)

\* lines 173-183 and 201-204: the ERROR hits become the answer; a key that
\* a hit lacks is a KeyError, which the application answers with 500
FromError(handover_token, hits) ==
    IF \A i \in 1..Len(hits) : RequiredKeys \subseteq DOMAIN hits[i].params
    THEN HandoverReply(handover_token, 200, [i \in 1..Len(hits) |-> ErrorView(hits[i])])
    ELSE HandoverReply(handover_token, 500, <<>>)

\* the INFO branch without the check of lines 201-202: no hit, an empty list
FromInfoEmptyOk(handover_token, hits) ==
    IF \A i \in 1..Len(hits) :
          (RequiredKeys \cup ProgressKeys) \subseteq DOMAIN hits[i].params
    THEN HandoverReply(handover_token, 200, [i \in 1..Len(hits) |-> InfoView(hits[i])])
    ELSE HandoverReply(handover_token, 500, <<>>)

\* lines 189-204: the INFO hits become the answer, and no hit is a 404
FromInfo(handover_token, hits) ==
    IF Len(hits) = 0 THEN HandoverReply(handover_token, 404, <<>>)
    ELSE IF \A i \in 1..Len(hits) :
               (RequiredKeys \cup ProgressKeys) \subseteq DOMAIN hits[i].params
    THEN HandoverReply(handover_token, 200, [i \in 1..Len(hits) |-> InfoView(hits[i])])
    ELSE HandoverReply(handover_token, 500, <<>>)

\* the status query asking for INFO events first and for ERROR events only
\* when there is none
handover_result_info_first(docs, handover_token) ==
    UNION {IF Len(res) # 0
           THEN {FromInfo(handover_token, res)}
           ELSE {IF Len(res_error) = 0 THEN HandoverReply(handover_token, 404, <<>>)
                 ELSE FromError(handover_token, res_error) :
                   res_error \in es_search(TermQuery(docs, handover_token, "ERROR"), 1)} :
             res \in es_search(TermQuery(docs, handover_token, "INFO"), 1)}

\* the status query as one search for the latest event of either type
handover_result_latest_any(docs, handover_token) ==
    {IF Len(res) # 0 /\ res[1].report_type = "ERROR"
     THEN FromError(handover_token, res)
     ELSE FromInfo(handover_token, res) :
       res \in es_search({d \in docs : d.params.handover_token = handover_token}, 1)}

\* GET /handovers/<handover_token>: every response the handler can give on
\* the index contents docs
handover_result(docs, handover_token) ==
    UNION {IF Len(res_error) # 0
           THEN {FromError(handover_token, res_error)}
           ELSE {FromInfo(handover_token, res) :
                   res \in es_search(TermQuery(docs, handover_token, "INFO"), 1)} :
             res_error \in es_search(TermQuery(docs, handover_token, "ERROR"), 1)}

(***************************************************************************)
(* valid_handover(doc, release): the release matcher on the src_uri.       *)
(* The result is [raised, value]: raised when the expression reaches       *)
(* int() of a group that did not take part in the match (None).            *)
(***************************************************************************)
Returns(value) == [raised |-> FALSE, value |-> value]

Raises == [raised |-> TRUE, value |-> FALSE]

ReleaseOffset == 53

\* the matcher comparing first with the release as a number: a str never
\* equals an int, so the exact rule never applies
valid_handover_int_release(doc, release) ==
    LET match == re_match(doc.params.src_uri)
    IN  IF match.matched
        THEN IF ~(match.has_second /\ match.second = release) THEN Returns(FALSE)
             ELSE Returns(int(match.second) - int(match.first) = ReleaseOffset)
        ELSE Returns(FALSE)

\* the matcher without the comparison of the difference: a second group
\* equal to the release is enough
valid_handover_any_offset(doc, release) ==
    LET match == re_match(doc.params.src_uri)
    IN  IF match.matched
        THEN IF match.first = release THEN Returns(TRUE)
             ELSE Returns(match.has_second /\ match.second = release)
        ELSE Returns(FALSE)

valid_handover(doc, release) ==
    LET match == re_match(doc.params.src_uri)
    IN  IF match.matched
        THEN IF match.first = release THEN Returns(TRUE)
             \* second == release is False for a second of None
             ELSE IF ~(match.has_second /\ match.second = release) THEN Returns(FALSE)
             ELSE IF ~match.has_second THEN Raises
             ELSE Returns(int(match.second) - int(match.first) = ReleaseOffset)
        ELSE Returns(FALSE)

(***************************************************************************)
(* The candidate query of the listing (lines 250-270).  The message and    *)
(* the tgt_uri are analysed text: the query_string "Handling*" matches a   *)
(* document one of whose message words begins with "handling" in any       *)
(* case, and the regular expression /.*_<release>(_[0-9]+)?/ must match a  *)
(* whole term of tgt_uri; a tgt_uri of letters, digits and underscores is  *)
(* one term.                                                               *)
(***************************************************************************)
HandlingWords == {"Handling", "handling"}

HandlingQuery(message) == \E i \in 1..Len(message) : message[i] \in HandlingWords

TgtQuery(tgt_uri, release) ==
    \E i \in 1..Len(tgt_uri) :
        /\ tgt_uri[i] = "_"
        /\ i + Len(release) <= Len(tgt_uri)
        /\ SubSeq(tgt_uri, i + 1, i + Len(release)) = release
        /\ LET j == i + Len(release) + 1
           IN  \/ j = Len(tgt_uri) + 1
               \/ /\ j < Len(tgt_uri)
                  /\ tgt_uri[j] = "_"
                  /\ DigitsEnd(tgt_uri, j + 1) = Len(tgt_uri)

ListQuery(docs, release) ==
    {d \in docs : HandlingQuery(d.message) /\ TgtQuery(d.params.tgt_uri, release)}

PageSize == 1000

\* the result dict of the candidate doc (lines 274-296) when the search
\* that decides current_message returned hits: the key is set from the
\* hits, and is not set when there is none
ListEntry(doc, hits) ==
    IF Len(hits) = 0
    THEN [id |-> doc._id, message |-> doc.message, comment |-> doc.params.comment,
          handover_token |-> doc.params.handover_token, contact |-> doc.params.contact,
          src_uri |-> doc.params.src_uri, tgt_uri |-> doc.params.tgt_uri,
          report_time |-> doc.report_time]
    ELSE [id |-> doc._id, message |-> doc.message, comment |-> doc.params.comment,
          handover_token |-> doc.params.handover_token,
          current_message |-> hits[Len(hits)].message,
          contact |-> doc.params.contact,
          src_uri |-> doc.params.src_uri, tgt_uri |-> doc.params.tgt_uri,
          report_time |-> doc.report_time]

\* the result dicts one candidate can give (lines 274-297): current_message
\* is set from the latest ERROR hit, else from the latest INFO hit, else not
ListEntries(docs, doc) ==
    LET token == doc.params.handover_token
    IN  UNION {IF Len(res_error) # 0
               THEN {ListEntry(doc, res_error)}
               ELSE {ListEntry(doc, res2) :
                       res2 \in es_search(TermQuery(docs, token, "INFO"), 1)} :
                 res_error \in es_search(TermQuery(docs, token, "ERROR"), 1)}

\* the lists the loop of lines 272-297 can build from the candidates kept:
\* one entry for each, in their order
RECURSIVE list_handovers(_, _)
list_handovers(docs, kept) ==
    IF kept = <<>> THEN {<<>>}
    ELSE {<<entry>> \o rest : entry \in ListEntries(docs, Head(kept)),
                              rest \in list_handovers(docs, Tail(kept))}

\* the listing without the test of line 273: every candidate gets an entry
handover_results_unfiltered(docs, release) ==
    LET Reply(status, body) == Response("handover_results", "", release, status, body)
        FromHits(hits) == {Reply(200, body) : body \in list_handovers(docs, hits)}
    IN  UNION {FromHits(hits) : hits \in es_search(ListQuery(docs, release), PageSize)}

\* the listing that asks for every candidate, tests them with the matcher
\* and returns the first `size` entries
handover_results_cut_last(docs, release, size) ==
    LET Reply(status, body) == Response("handover_results", "", release, status, body)
        Keep(doc) == valid_handover(doc, release).value
        FromHits(hits) ==
            {Reply(200, body) : body \in list_handovers(docs, Take(SelectSeq(hits, Keep), size))}
    IN  UNION {FromHits(hits) :
                 hits \in es_search(ListQuery(docs, release), Cardinality(docs))}

\* lines 249-298 with the "size" of the candidate query (line 266) as a
\* parameter: every response the handler can give
handover_results_sized(docs, release, size) ==
    LET Reply(status, body) == Response("handover_results", "", release, status, body)
        Keep(doc) == valid_handover(doc, release).value
        FromHits(hits) ==
            IF \E i \in 1..Len(hits) : valid_handover(hits[i], release).raised
            THEN {Reply(500, <<>>)}
            ELSE {Reply(200, body) : body \in list_handovers(docs, SelectSeq(hits, Keep))}
    IN  UNION {FromHits(hits) : hits \in es_search(ListQuery(docs, release), size)}

\* GET /handovers?release=<release>: every response the handler can give
handover_results(docs, release) == handover_results_sized(docs, release, PageSize)

\* a purge whose query also asks for report_type ERROR, as the searches do
delete_handover_errors(docs, handover_token) ==
    {d \in docs : ~(d.params.handover_token = handover_token /\ d.report_type = "ERROR")}

\* a purge whose query lost its term: it matches every document
delete_handover_all(docs, handover_token) == {}

\* DELETE /handovers/<handover_token>: delete_by_query on the token
delete_handover(docs, handover_token) ==
    {d \in docs : d.params.handover_token # handover_token}

(***************************************************************************)
(* The job applications (src/hc_app.py, src/metadata_app.py).  Each keeps  *)
(* its Job Queue client in the module global hive, None until get_hive()   *)
(* constructs a HiveInstance.  hive[a] is the global of application a      *)
(* (NoHive for None, else the number of the instance), instances[a] the    *)
(* number of HiveInstance objects constructed in a so far.  threads[t] is  *)
(* the request worker thread t is serving or has served: the function      *)
(* (op), where it stands (pc), the application, the format parameter (fmt, *)
(* an empty sequence when absent, else the one string given), the job,     *)
(* the status the Job Queue reports for it, the instance get_hive()        *)
(* returned (got), the Job Queue calls made (calls) and the response.      *)
(***************************************************************************)
Apps == {"hc", "metadata"}

Threads == {"w1", "w2"}

NoHive == 0

Formats == {<<>>, <<"email">>, <<"failures">>, <<"xml">>, <<"">>}

JobIds == {1, 2}

JobStatuses == {"complete", "failed", "running"}

NoReply == [code |-> 0, kind |-> "none"]

IdleThread ==
    [op |-> "none", pc |-> "idle", app |-> "hc", fmt |-> <<>>, job_id |-> 0,
     job_status |-> "none", got |-> NoHive, calls |-> <<>>, reply |-> NoReply]

InitJobs ==
    /\ hive = [a \in Apps |-> NoHive]
    /\ instances = [a \in Apps |-> 0]
    /\ threads = [t \in Threads |-> IdleThread]

\* get_hive() run without interruption on the global h of an application
\* that has constructed n instances: the global and the count after it
get_hive(h, n) ==
    IF h = NoHive THEN [hive |-> n + 1, instances |-> n + 1]
    ELSE [hive |-> h, instances |-> n]

QueueCall(method, job_id) == [method |-> method, job_id |-> job_id]

\* the Job Queue method that gives the failure messages of a job
FailureMethod(app) ==
    IF app = "hc" THEN "get_jobs_failure_msg" ELSE "get_job_failure_msg_by_id"

\* handle_error: 400 for a ValueError, 500 for any other exception
handle_error(is_value_error) ==
    [code |-> IF is_value_error THEN 400 ELSE 500, kind |-> "error"]

\* job_email: the job, its result and, for a failed job, its failure
\* messages are asked of the Job Queue
job_email(app, job_id, job_status) ==
    [reply |-> [code |-> 200, kind |-> "email"],
     calls |-> <<QueueCall("get_job_by_id", job_id),
                 QueueCall("get_result_for_job_id", job_id)>> \o
               IF job_status = "failed"
               THEN <<QueueCall(FailureMethod(app), job_id)>> ELSE <<>>]

\* job_failures (hc_app) and failure (metadata_app)
job_failures(app, job_id) ==
    [reply |-> [code |-> 200, kind |-> "failures"],
     calls |-> <<QueueCall(FailureMethod(app), job_id)>>]

\* job_result with an else branch that returns the plain result
job_result_plain_default(app, fmt, job_id, job_status) ==
    IF fmt = <<"email">> THEN job_email(app, job_id, job_status)
    ELSE IF fmt = <<"failures">> THEN job_failures(app, job_id)
    ELSE [reply |-> [code |-> 200, kind |-> "result"],
          calls |-> <<QueueCall("get_result_for_job_id", job_id)>>]

\* GET /jobs/<job_id>?format=<fmt>: the response and the Job Queue calls
job_result(app, fmt, job_id, job_status) ==
    IF fmt = <<"email">> THEN job_email(app, job_id, job_status)
    ELSE IF fmt = <<"failures">> THEN job_failures(app, job_id)
    ELSE IF fmt = <<>>
    THEN [reply |-> [code |-> 200, kind |-> "result"],
          calls |-> <<QueueCall("get_result_for_job_id", job_id)>>]
    ELSE [reply |-> handle_error(FALSE), calls |-> <<>>]

(***************************************************************************)
(* The state: the documents in the index (store), the id the index gives   *)
(* the next document (next_id), and the last request served with its       *)
(* response (last).  Two history variables record what the writers and     *)
(* the purge have done: errored is the set of tokens an ERROR event was     *)
(* appended for since their last purge; purged[t] tells whether t was      *)
(* purged with nothing appended for it since, and the report types the     *)
(* purge removed.                                                          *)
(*                                                                         *)
(* index_exists tells whether the index was ever created: Elasticsearch    *)
(* creates it with the first document indexed, and a search or a           *)
(* delete_by_query on a missing index raises NotFoundError (status 404).   *)
(*                                                                         *)
(* call is the request a handler is in the middle of when its searches     *)
(* are taken one at a time: the handler (op), where it stands (pc), its    *)
(* arguments and its local variables hits (the candidates not yet looked   *)
(* at) and list_handovers.  seen is a history variable: the responses the  *)
(* status query would have given on each content the index has had since   *)
(* the call in progress began.                                             *)
(***************************************************************************)
NotPurged == [done |-> FALSE, types |-> {}]

Idle == Response("none", "", <<>>, 0, <<>>)

NewDocs(id) ==
    {[_id |-> id, report_type |-> kind.report_type, report_time |-> time,
      message |-> kind.message, params |-> ParamsOf(token, kind.progress)] :
        kind \in EventKinds, time \in 1..MaxTime, token \in Tokens}

NoCall ==
    [op |-> "none", pc |-> "idle", token |-> "", release |-> <<>>, hits |-> <<>>,
     list_handovers |-> <<>>]

\* lines 374-378: a TransportError raised by a search leaves the handler
\* and is answered with jsonify(error=message) and the status of the error
handle_elastisearch_error(op, token, release, status_code) ==
    Response(op, token, release, status_code, <<>>)

\* the responses of GET /handovers/<handover_token> when both searches see
\* the same index
StatusReplies(exists, docs, handover_token) ==
    IF exists THEN handover_result(docs, handover_token)
    ELSE {handle_elastisearch_error("handover_result", handover_token, <<>>, 404)}

\* seen after the index became docs
Observed(exists, docs) ==
    IF call.op = "handover_result" /\ call.pc \in {"error", "info"}
    THEN seen \cup StatusReplies(exists, docs, call.token)
    ELSE seen

Init ==
    /\ store = {}
    /\ next_id = 1
    /\ last = Idle
    /\ errored = {}
    /\ purged = [t \in Tokens |-> NotPurged]
    /\ index_exists \in BOOLEAN
    /\ call = NoCall
    /\ seen = {}
    /\ InitJobs

\* the index receives the document doc
IndexDoc(doc) ==
    /\ store' = store \cup {doc}
    /\ last' = Response("append", doc.params.handover_token, <<>>, 200, <<>>)
    /\ errored' = IF doc.report_type = "ERROR"
                  THEN errored \cup {doc.params.handover_token}
                  ELSE errored
    /\ purged' = [purged EXCEPT ![doc.params.handover_token] = NotPurged]
    /\ seen' = Observed(TRUE, store \cup {doc})
    /\ next_id' = next_id + 1
    /\ index_exists' = TRUE
    /\ UNCHANGED call
    /\ UNCHANGED jobs

\* a writer (the handover pipeline) indexes one event document
AppendEvent ==
    /\ next_id <= MaxDocs
    /\ \E doc \in NewDocs(next_id) : IndexDoc(doc)

\* a status query that removes the documents it reports from the index
HandoverResultConsuming ==
    /\ \E token \in Tokens :
          /\ last' \in StatusReplies(index_exists, store, token)
          /\ store' = {d \in store : \A i \in 1..Len(last'.body) : d._id # last'.body[i].id}
    /\ UNCHANGED <<next_id, errored, purged, index_exists, call, seen>>
    /\ UNCHANGED jobs

\* GET /handovers/<handover_token> served in one step
HandoverResult ==
    /\ \E token \in Tokens : last' \in StatusReplies(index_exists, store, token)
    /\ UNCHANGED <<store, next_id, errored, purged, index_exists, call, seen>>
    /\ UNCHANGED jobs

Releases == {Str93, Str90}

\* GET /handovers?release=<release> served in one step
HandoverResults ==
    /\ \E release \in Releases :
          last' \in IF index_exists THEN handover_results(store, release)
                    ELSE {handle_elastisearch_error("handover_results", "", release, 404)}
    /\ UNCHANGED <<store, next_id, errored, purged, index_exists, call, seen>>
    /\ UNCHANGED jobs

\* a purge that answers 404 whenever no document carries the token
DeleteHandoverUnknownToken ==
    /\ \E token \in Tokens :
          IF \E d \in store : d.params.handover_token = token
          THEN /\ store' = delete_handover(store, token)
               /\ last' = Response("delete_handover", token, <<>>, 200, <<>>)
               /\ errored' = errored \ {token}
               /\ purged' = [purged EXCEPT ![token] =
                               [done |-> TRUE,
                                types |-> {d.report_type : d \in store \ store'}]]
               /\ seen' = Observed(TRUE, delete_handover(store, token))
          ELSE /\ last' = Response("delete_handover", token, <<>>, 404, <<>>)
               /\ UNCHANGED <<store, errored, purged, seen>>
    /\ UNCHANGED <<next_id, index_exists, call>>
    /\ UNCHANGED jobs

\* DELETE /handovers/<handover_token> (lines 363-371): on a missing index
\* delete_by_query raises NotFoundError, answered with 404
DeleteHandover ==
    /\ \E token \in Tokens :
          IF index_exists
          THEN /\ store' = delete_handover(store, token)
               /\ last' = Response("delete_handover", token, <<>>, 200, <<>>)
               /\ errored' = errored \ {token}
               /\ purged' = [purged EXCEPT ![token] =
                               [done |-> TRUE,
                                types |-> {d.report_type : d \in store \ store'}]]
               /\ seen' = Observed(TRUE, delete_handover(store, token))
          ELSE /\ last' = Response("delete_handover", token, <<>>, 404, <<>>)
               /\ UNCHANGED <<store, errored, purged, seen>>
    /\ UNCHANGED <<next_id, index_exists, call>>
    /\ UNCHANGED jobs

Next ==
    \/ AppendEvent
    \/ HandoverResult
    \/ HandoverResults
    \/ DeleteHandover

Spec == Init /\ [][Next]_vars

(***************************************************************************)
(* The handlers taken one search at a time.  Between two searches of a     *)
(* handler the writers and the purge may change the index, and a search    *)
(* may raise a TransportError instead of returning hits.  A handler that   *)
(* has returned or failed leaves its locals in call until the next request *)
(* begins.                                                                 *)
(***************************************************************************)
InFlight == call.pc \notin {"idle", "done", "failed"}

\* GET /handovers/<handover_token> is received
ResultBegin ==
    /\ ~InFlight
    /\ \E token \in Tokens :
          /\ call' = [NoCall EXCEPT !.op = "handover_result", !.pc = "error",
                                    !.token = token]
          /\ seen' = StatusReplies(index_exists, store, token)
    /\ UNCHANGED <<store, next_id, last, errored, purged, index_exists>>
    /\ UNCHANGED jobs

\* lines 168-183: the search for ERROR events and, with a hit, the answer
ResultErrorSearch ==
    /\ call.op = "handover_result"
    /\ call.pc = "error"
    /\ IF ~index_exists
       THEN /\ last' = handle_elastisearch_error(call.op, call.token, <<>>, 404)
            /\ call' = [call EXCEPT !.pc = "failed"]
       ELSE \E res_error \in es_search(TermQuery(store, call.token, "ERROR"), 1) :
               IF Len(res_error) # 0
               THEN /\ last' = FromError(call.token, res_error)
                    /\ call' = [call EXCEPT !.pc = "done"]
               ELSE /\ call' = [call EXCEPT !.pc = "info"]
                    /\ UNCHANGED last
    /\ UNCHANGED <<store, next_id, errored, purged, index_exists, seen>>
    /\ UNCHANGED jobs

\* lines 185-204: the search for INFO events and the answer
ResultInfoSearch ==
    /\ call.op = "handover_result"
    /\ call.pc = "info"
    /\ \E res \in es_search(TermQuery(store, call.token, "INFO"), 1) :
          last' = FromInfo(call.token, res)
    /\ call' = [call EXCEPT !.pc = "done"]
    /\ UNCHANGED <<store, next_id, errored, purged, index_exists, seen>>
    /\ UNCHANGED jobs

NextConcurrent ==
    \/ AppendEvent
    \/ DeleteHandover
    \/ ResultBegin
    \/ ResultErrorSearch
    \/ ResultInfoSearch

SpecConcurrent == Init /\ [][NextConcurrent]_vars

\* GET /handovers?release=<release> is received
ListBegin ==
    /\ ~InFlight
    /\ \E release \in Releases :
          call' = [NoCall EXCEPT !.op = "handover_results", !.pc = "candidates",
                                 !.release = release]
    /\ UNCHANGED <<store, next_id, last, errored, purged, index_exists, seen>>
    /\ UNCHANGED jobs

\* lines 250-271: the search for the candidates
ListCandidates ==
    /\ call.op = "handover_results"
    /\ call.pc = "candidates"
    /\ IF ~index_exists
       THEN /\ last' = handle_elastisearch_error(call.op, "", call.release, 404)
            /\ call' = [call EXCEPT !.pc = "failed"]
       ELSE /\ \E hits \in es_search(ListQuery(store, call.release), PageSize) :
                  call' = [call EXCEPT !.pc = "loop", !.hits = hits]
            /\ UNCHANGED last
    /\ UNCHANGED <<store, next_id, errored, purged, index_exists, seen>>
    /\ UNCHANGED jobs

\* the loop of line 272 is about to search for the events of a candidate
\* that passed the matcher
AtSearch ==
    /\ call.op = "handover_results"
    /\ call.pc = "loop"
    /\ call.hits # <<>>
    /\ valid_handover(Head(call.hits), call.release) = Returns(TRUE)

\* lines 272-285: the next candidate; one the matcher rejects is skipped,
\* one it accepts gets its entry when the search for ERROR events has a hit
ListNext ==
    /\ call.op = "handover_results"
    /\ call.pc = "loop"
    /\ call.hits # <<>>
    /\ LET doc == Head(call.hits)
           valid == valid_handover(doc, call.release)
       IN  IF valid.raised
           THEN /\ last' = Response(call.op, "", call.release, 500, <<>>)
                /\ call' = [call EXCEPT !.pc = "failed"]
           ELSE IF ~valid.value
           THEN /\ call' = [call EXCEPT !.hits = Tail(call.hits)]
                /\ UNCHANGED last
           ELSE /\ \E res_error \in
                        es_search(TermQuery(store, doc.params.handover_token, "ERROR"), 1) :
                      IF Len(res_error) # 0
                      THEN call' = [call EXCEPT
                                      !.hits = Tail(call.hits),
                                      !.list_handovers =
                                          Append(call.list_handovers,
                                                 ListEntry(doc, res_error))]
                      ELSE call' = [call EXCEPT !.pc = "info"]
                /\ UNCHANGED last
    /\ UNCHANGED <<store, next_id, errored, purged, index_exists, seen>>
    /\ UNCHANGED jobs

\* lines 286-297: the search for INFO events of the candidate, and its entry
ListInfoSearch ==
    /\ call.op = "handover_results"
    /\ call.pc = "info"
    /\ LET doc == Head(call.hits)
       IN  \E res2 \in es_search(TermQuery(store, doc.params.handover_token, "INFO"), 1) :
              call' = [call EXCEPT
                         !.pc = "loop",
                         !.hits = Tail(call.hits),
                         !.list_handovers =
                             Append(call.list_handovers, ListEntry(doc, res2))]
    /\ UNCHANGED <<store, next_id, last, errored, purged, index_exists, seen>>
    /\ UNCHANGED jobs

\* line 298: the candidates are exhausted
ListReturn ==
    /\ call.op = "handover_results"
    /\ call.pc = "loop"
    /\ call.hits = <<>>
    /\ last' = Response(call.op, "", call.release, 200, call.list_handovers)
    /\ call' = [call EXCEPT !.pc = "done"]
    /\ UNCHANGED <<store, next_id, errored, purged, index_exists, seen>>
    /\ UNCHANGED jobs

\* the status codes of a TransportError: 503 from Elasticsearch, and 500
\* when the connection failed and the error carries no status code
TransportStatus == {500, 503}

\* a failed search answered although entries were assembled: the handler
\* returns what it has
RaisedPartial(locals, status_code) ==
    Response(locals.op, locals.token, locals.release, 200, locals.list_handovers)

\* the answer when a search of the handler with the given locals raised
\* TransportError: the exception leaves the handler, its locals are
\* dropped, and the error handler answers
Raised(locals, status_code) ==
    handle_elastisearch_error(locals.op, locals.token, locals.release, status_code)

\* the search a handler is about to make raises TransportError
EsRaises ==
    /\ \/ call.pc \in {"candidates", "error", "info"}
       \/ AtSearch
    /\ \E status_code \in TransportStatus : last' = Raised(call, status_code)
    /\ call' = [call EXCEPT !.pc = "failed"]
    /\ UNCHANGED <<store, next_id, errored, purged, index_exists, seen>>
    /\ UNCHANGED jobs

NextFailing ==
    \/ AppendEvent
    \/ ListBegin
    \/ ListCandidates
    \/ ListNext
    \/ ListInfoSearch
    \/ ListReturn
    \/ EsRaises

SpecFailing == Init /\ [][NextFailing]_vars

\* the listing taken one search at a time while writers append and the
\* purge deletes
NextListConcurrent ==
    \/ AppendEvent
    \/ DeleteHandover
    \/ ListBegin
    \/ ListCandidates
    \/ ListNext
    \/ ListInfoSearch
    \/ ListReturn

SpecListConcurrent == Init /\ [][NextListConcurrent]_vars

(***************************************************************************)
(* The listing on handovers whose src_uri and tgt_uri differ: T1 was       *)
(* handed over from c_93_1 to c_93_1, T2 from c_90_1 to c_93_1, and a      *)
(* token may have been submitted more than once.                           *)
(***************************************************************************)
ListJob(token) ==
    IF token = "T1"
    THEN [src_uri |-> Uri93, tgt_uri |-> Uri93, contact |-> "ann", comment |-> "tiger"]
    ELSE [src_uri |-> Uri90, tgt_uri |-> Uri93, contact |-> "bob", comment |-> "panda"]

ListKinds ==
    {[report_type |-> "INFO", message |-> <<"Handling", "spec">>, progress |-> <<>>],
     [report_type |-> "INFO", message |-> <<"Handling", "again">>, progress |-> <<1, 2>>],
     [report_type |-> "INFO", message |-> <<"Copying">>, progress |-> <<1, 2>>],
     [report_type |-> "ERROR", message |-> <<"Failed">>, progress |-> <<1, 2>>]}

ListParams(token, progress) ==
    LET p == [handover_token |-> token, src_uri |-> ListJob(token).src_uri,
              tgt_uri |-> ListJob(token).tgt_uri, contact |-> ListJob(token).contact,
              comment |-> ListJob(token).comment]
    IN  IF progress = <<>> THEN p ELSE WithProgress(p, progress[1], progress[2])

ListDocs(id) ==
    {[_id |-> id, report_type |-> kind.report_type, report_time |-> time,
      message |-> kind.message, params |-> ListParams(token, kind.progress)] :
        kind \in ListKinds, time \in 1..MaxTime, token \in Tokens}

AppendListEvent ==
    /\ next_id <= MaxDocs
    /\ \E doc \in ListDocs(next_id) : IndexDoc(doc)

NextList ==
    \/ AppendListEvent
    \/ HandoverResult
    \/ HandoverResults
    \/ DeleteHandover

SpecList == Init /\ [][NextList]_vars

(***************************************************************************)
(* The listing with a page smaller than the index: the candidate query     *)
(* asks for MaxPage hits where the code asks for PageSize, so that the     *)
(* index can hold more candidates than one page.                           *)
(***************************************************************************)
HandoverResultsPage ==
    /\ \E release \in Releases :
          last' \in IF index_exists THEN handover_results_sized(store, release, MaxPage)
                    ELSE {handle_elastisearch_error("handover_results", "", release, 404)}
    /\ UNCHANGED <<store, next_id, errored, purged, index_exists, call, seen>>
    /\ UNCHANGED jobs

NextPage ==
    \/ AppendListEvent
    \/ HandoverResultsPage
    \/ DeleteHandover

SpecPage == Init /\ [][NextPage]_vars

(***************************************************************************)
(* The job applications.  In SpecJobs a worker thread serves a job-result  *)
(* request in one step.  In SpecHive the threads run get_hive() one        *)
(* statement at a time: nothing orders the test of the global and the      *)
(* assignment to it between threads.                                       *)
(***************************************************************************)
handover == <<store, next_id, last, errored, purged, index_exists, call, seen>>

JobResult ==
    /\ \E t \in Threads, app \in Apps, fmt \in Formats, job_id \in JobIds,
          job_status \in JobStatuses :
          /\ threads[t].pc \in {"idle", "done"}
          /\ LET out == job_result(app, fmt, job_id, job_status)
                 \* every branch that calls the Job Queue calls get_hive()
                 client == IF out.calls # <<>> THEN get_hive(hive[app], instances[app])
                           ELSE [hive |-> hive[app], instances |-> instances[app]]
             IN  /\ hive' = [hive EXCEPT ![app] = client.hive]
                 /\ instances' = [instances EXCEPT ![app] = client.instances]
                 /\ threads' = [threads EXCEPT ![t] =
                        [op |-> "job_result", pc |-> "done", app |-> app, fmt |-> fmt,
                         job_id |-> job_id, job_status |-> job_status,
                         got |-> IF out.calls # <<>> THEN client.hive ELSE NoHive,
                         calls |-> out.calls, reply |-> out.reply]]
    /\ UNCHANGED handover

SpecJobs == Init /\ [][JobResult]_vars

\* a request handler calls get_hive()
GetHiveBegin ==
    /\ \E t \in Threads, app \in Apps :
          /\ threads[t].pc \in {"idle", "done"}
          /\ threads' = [threads EXCEPT ![t] =
                 [IdleThread EXCEPT !.op = "get_hive", !.pc = "test", !.app = app]]
    /\ UNCHANGED <<handover, hive, instances>>

\* `if hive is None:`
GetHiveTest ==
    /\ \E t \in Threads :
          /\ threads[t].pc = "test"
          /\ threads' = [threads EXCEPT ![t].pc =
                 IF hive[threads[t].app] = NoHive THEN "construct" ELSE "return"]
    /\ UNCHANGED <<handover, hive, instances>>

\* `hive = HiveInstance(app.config["HIVE_URI"])`
GetHiveConstruct ==
    /\ \E t \in Threads :
          /\ threads[t].pc = "construct"
          /\ LET app == threads[t].app
             IN  /\ instances' = [instances EXCEPT ![app] = instances[app] + 1]
                 /\ hive' = [hive EXCEPT ![app] = instances[app] + 1]
          /\ threads' = [threads EXCEPT ![t].pc = "return"]
    /\ UNCHANGED handover

\* `return hive`
GetHiveReturn ==
    /\ \E t \in Threads :
          /\ threads[t].pc = "return"
          /\ threads' = [threads EXCEPT ![t].pc = "done",
                                        ![t].got = hive[threads[t].app]]
    /\ UNCHANGED <<handover, hive, instances>>

NextHive ==
    \/ GetHiveBegin
    \/ GetHiveTest
    \/ GetHiveConstruct
    \/ GetHiveReturn

SpecHive == Init /\ [][NextHive]_vars

(***************************************************************************)
(* The matcher on its own: the index holds one document whose src_uri is   *)
(* any concatenation of at most MaxPieces pieces, and the matcher is       *)
(* applied to it once, for any release.                                    *)
(***************************************************************************)
Pieces ==
    {<<"a">>, <<"_">>, <<NL>>, <<"_", "9", "3">>, <<"_", "1", "4", "6">>, <<"_", "1">>,
     <<"_", "4", "0">>, <<"_", "4">>, <<"_", "1", "0", "0">>}

Identifiers(most) ==
    UNION {{Concat(ps) : ps \in [1..n -> Pieces]} : n \in 0..most}

MatchReleases ==
    {Str93, <<"9", "4">>, <<"1", "4", "6">>, <<"4", "0">>, <<"4">>, <<"1">>,
     <<"1", "0", "0">>}

MatchDoc(src_uri) ==
    [_id |-> 1, report_type |-> "INFO", report_time |-> 1,
     message |-> <<"Handling", "spec">>,
     params |-> [handover_token |-> "T1", src_uri |-> src_uri, tgt_uri |-> src_uri,
                 contact |-> "ann", comment |-> "tiger"]]

InitMatch ==
    /\ store \in {{MatchDoc(s)} : s \in Identifiers(MaxPieces)}
    /\ next_id = 2
    /\ last = Idle
    /\ errored = {}
    /\ purged = [t \in Tokens |-> NotPurged]
    /\ index_exists = TRUE
    /\ call = NoCall
    /\ seen = {}
    /\ InitJobs

ValidHandover ==
    /\ last = Idle
    /\ \E doc \in store, release \in MatchReleases :
          last' = Response("valid_handover", "", release, 200,
                           <<valid_handover(doc, release)>>)
    /\ UNCHANGED <<store, next_id, errored, purged, index_exists, call, seen>>
    /\ UNCHANGED jobs

SpecMatch == InitMatch /\ [][ValidHandover]_vars

(***************************************************************************)
(* Properties.  A state in which last.op = "handover_result" is the state  *)
(* right after that request was served: every request overwrites last,    *)
(* and the status query leaves the index alone, so store is the index the  *)
(* query read.                                                             *)
(***************************************************************************)
ErrorsOf(token) == TermQuery(store, token, "ERROR")

InfosOf(token) == TermQuery(store, token, "INFO")

Latest(docs) == {d \in docs : \A e \in docs : e.report_time <= d.report_time}

DocById(id) == CHOOSE d \in store : d._id = id

Served == last.op = "handover_result"

\* the status query answered 200 with one record
Reported == Served /\ last.status = 200 /\ Len(last.body) = 1

\* C1: when the token has an ERROR event, the status query answers with an
\* ERROR event of the token whose report_time is the maximum among the
\* token's ERROR events, and the message returned is that event's message,
\* whatever INFO events the token has.
C1_ReportsLatestError ==
    (Served /\ ErrorsOf(last.token) # {}) =>
        /\ Reported
        /\ \E d \in Latest(ErrorsOf(last.token)) :
              /\ last.body[1].id = d._id
              /\ last.body[1].message = d.message

\* C1 witness: the query answered with the later of two ERROR events of the
\* token that differ in report_time and message.
C1_Witness ==
    /\ Reported
    /\ \E d, e \in ErrorsOf(last.token) :
          /\ e.report_time < d.report_time
          /\ e.message # d.message
          /\ last.body[1].id = d._id

\* the status the claim C2 gives a token
Classify(token) ==
    IF ErrorsOf(token) # {} THEN "failed"
    ELSE IF \E d \in Latest(InfosOf(token)) :
              d.params.progress_complete < d.params.progress_total
    THEN "running" ELSE "complete"

C3_UnknownTokenNotFound ==
    (Served /\ ErrorsOf(last.token) = {} /\ InfosOf(last.token) = {}) =>
        (last.status = 404 /\ last.body = <<>>)

\* C3 witness: the query answered 404 for a token without events while the
\* index holds events of another token.
C3_Witness ==
    /\ Served
    /\ last.status = 404
    /\ store # {}
    /\ \A d \in store : d.params.handover_token # last.token

\* C4: once an ERROR event was appended for a token, and until the token is
\* purged, every status query for it answers with an ERROR event.
C4_ErrorIsTerminal ==
    (Served /\ last.token \in errored) =>
        (Reported /\ DocById(last.body[1].id).report_type = "ERROR")

\* C4 witness: the query answered with an ERROR event although an INFO
\* event of the token was appended after it with a later report_time.
C4_Witness ==
    /\ Reported
    /\ last.token \in errored
    /\ \E i \in InfosOf(last.token) :
          /\ i._id > last.body[1].id
          /\ i.report_time > last.body[1].report_time

\* C5: after delete_handover(T), with no event appended for T since, the
\* status query for T answers 404, whatever events T had.
C5_PurgedTokenNotFound ==
    (Served /\ purged[last.token].done) => (last.status = 404 /\ last.body = <<>>)

\* C5 witness: the query answered 404 for a token whose purge removed both
\* INFO and ERROR events.
C5_Witness ==
    /\ Served
    /\ last.status = 404
    /\ purged[last.token].types = {"INFO", "ERROR"}

\* C6 as stated: two status queries for the same token, one right after
\* the other with no write in between, give identical results.
C6_RepeatedQueryIdentical ==
    [][(Served /\ last'.op = "handover_result" /\ last'.token = last.token)
          => last' = last]_vars

\* C7: a status query or a release listing, whether it succeeds or fails,
\* leaves the set of documents in the index as it was.
C7_ReadsLeaveStore ==
    [][last'.op \in {"handover_result", "handover_results"} => store' = store]_vars

\* C7 witness: a release listing answered with an entry.
C7_Witness ==
    /\ last.op = "handover_results"
    /\ last.status = 200
    /\ Len(last.body) > 0

\* C8: a result built from an ERROR event has no progress_complete and no
\* progress_total; a result built from an INFO event that carries both has
\* both values unchanged.
C8_ProgressFields ==
    Reported =>
        LET view == last.body[1]
            doc == DocById(view.id)
        IN  /\ doc.report_type = "ERROR" => DOMAIN view \cap ProgressKeys = {}
            /\ (doc.report_type = "INFO" /\ ProgressKeys \subseteq DOMAIN doc.params) =>
                  /\ ProgressKeys \subseteq DOMAIN view
                  /\ view.progress_complete = doc.params.progress_complete
                  /\ view.progress_total = doc.params.progress_total

\* C8 witness: the query answered with an ERROR event whose params carry
\* progress fields.
C8_Witness ==
    /\ Reported
    /\ DocById(last.body[1].id).report_type = "ERROR"
    /\ ProgressKeys \subseteq DOMAIN DocById(last.body[1].id).params

\* C9 as stated: for a token without ERROR events whose most recent INFO
\* event carries no progress_complete / progress_total, the status query
\* succeeds with a view of that event without the progress fields.
C9_InfoWithoutProgressSucceeds ==
    (/\ Served
     /\ ErrorsOf(last.token) = {}
     /\ InfosOf(last.token) # {}
     /\ \A d \in Latest(InfosOf(last.token)) : DOMAIN d.params \cap ProgressKeys = {}) =>
        /\ Reported
        /\ DocById(last.body[1].id) \in Latest(InfosOf(last.token))
        /\ DOMAIN last.body[1] \cap ProgressKeys = {}

\* the document the matcher was applied to, and its answer
Matched == last.op = "valid_handover"

MatchedDoc == CHOOSE d \in store : TRUE

Example93_1 == <<"a">> \o <<"_", "9", "3">> \o <<"_", "1">>

\* C10: when the src_uri matches the pattern and its `first` group equals
\* the release as a string the matcher answers true, whatever follows
\* first; on a_93_1 it answers true for release 93 and false for 94.
C10_ExactRule ==
    Matched =>
        LET src_uri == MatchedDoc.params.src_uri
            match == re_match(src_uri)
        IN  /\ (match.matched /\ match.first = last.release) => last.body[1] = Returns(TRUE)
            /\ (src_uri = Example93_1 /\ last.release = Str93) => last.body[1] = Returns(TRUE)
            /\ (src_uri = Example93_1 /\ last.release = <<"9", "4">>) =>
                  last.body[1] = Returns(FALSE)

\* C10 witness: the matcher answered true on an identifier with a second
\* and a third trailing segment whose first group is the release.
C10_Witness ==
    /\ Matched
    /\ MatchedDoc.params.src_uri = <<"a", "_", "9", "3", "_", "1", "_", "4", "0">>
    /\ last.release = Str93
    /\ last.body[1] = Returns(TRUE)

Example93_146 == <<"a">> \o <<"_", "9", "3">> \o <<"_", "1", "4", "6">>

Example93_100 == <<"a">> \o <<"_", "9", "3">> \o <<"_", "1", "0", "0">>

\* C11: when the src_uri matches and its `first` group differs from the
\* release, the matcher answers true exactly when the `second` group took
\* part in the match, equals the release as a string, and int(second) -
\* int(first) is 53; on a_93_146 it answers true for release 146, on
\* a_93_100 false for release 100.
C11_OffsetRule ==
    Matched =>
        LET src_uri == MatchedDoc.params.src_uri
            match == re_match(src_uri)
            offset == /\ match.has_second
                      /\ match.second = last.release
                      /\ int(match.second) - int(match.first) = 53
        IN  /\ (match.matched /\ match.first # last.release) =>
                  last.body[1] = Returns(offset)
            /\ (src_uri = Example93_146 /\ last.release = <<"1", "4", "6">>) =>
                  last.body[1] = Returns(TRUE)
            /\ (src_uri = Example93_100 /\ last.release = <<"1", "0", "0">>) =>
                  last.body[1] = Returns(FALSE)

\* C11 witness: the matcher answered true by the offset rule, on a_93_146
\* for release 146.
C11_Witness ==
    /\ Matched
    /\ MatchedDoc.params.src_uri = Example93_146
    /\ last.release = <<"1", "4", "6">>
    /\ last.body[1] = Returns(TRUE)

\* the identifier ends with an underscore followed by digits only
EndsWithDigitSegment(src_uri) ==
    \E i \in 1..Len(src_uri) :
        /\ src_uri[i] = "_"
        /\ i < Len(src_uri)
        /\ \A j \in (i + 1)..Len(src_uri) : src_uri[j] \in Digits

\* C12 as stated: the matcher never raises, and on an identifier that does
\* not end with a _<digits> segment it answers false.
C12_TotalAndFalseWithoutSegment ==
    Matched =>
        /\ ~last.body[1].raised
        /\ ~EndsWithDigitSegment(MatchedDoc.params.src_uri) =>
              last.body[1] = Returns(FALSE)

Listed == last.op = "handover_results" /\ last.status = 200

\* the submission events handed over to c_93_1: the candidates of release 93
SubmissionsTo93 ==
    {d \in store : d.message[1] = "Handling" /\ d.params.tgt_uri = Uri93}

\* C13: every entry of the listing is made from a document whose src_uri
\* passes the matcher for the release asked; with a submission of T1
\* (src_uri c_93_1) and one of T2 (src_uri c_90_1) in the index, the
\* listing of release 93 has an entry for T1 and none for T2.
C13_OnlyMatchingListed ==
    Listed =>
        /\ \A i \in 1..Len(last.body) :
              LET match == re_match(DocById(last.body[i].id).params.src_uri)
              IN  /\ match.matched
                  /\ \/ match.first = last.release
                     \/ /\ match.has_second
                        /\ match.second = last.release
                        /\ int(match.second) - int(match.first) = 53
        /\ last.release = Str93 =>
              /\ \A i \in 1..Len(last.body) : last.body[i].handover_token # "T2"
              /\ \A d \in SubmissionsTo93 :
                    d.params.handover_token = "T1" =>
                        \E i \in 1..Len(last.body) : last.body[i].id = d._id

\* C13 witness: the index holds a submission of T1 and one of T2, both
\* candidates of release 93, and the listing of 93 has the one entry of T1.
C13_Witness ==
    /\ Listed
    /\ last.release = Str93
    /\ \E d1, d2 \in SubmissionsTo93 :
          d1.params.handover_token = "T1" /\ d2.params.handover_token = "T2"
    /\ Len(last.body) = 1
    /\ last.body[1].handover_token = "T1"

\* C14 as stated: every entry of the listing carries the comment, contact,
\* src_uri, tgt_uri and report_time of its submission event, and a
\* current_message that is the message the status query reports for the
\* entry's token on the same index.
C14_CurrentMessageIsStatusMessage ==
    Listed =>
        \A i \in 1..Len(last.body) :
            LET entry == last.body[i]
                doc == DocById(entry.id)
            IN  /\ entry.comment = doc.params.comment
                /\ entry.contact = doc.params.contact
                /\ entry.src_uri = doc.params.src_uri
                /\ entry.tgt_uri = doc.params.tgt_uri
                /\ entry.report_time = doc.report_time
                /\ Has(entry, "current_message")
                /\ \E reply \in handover_result(store, entry.handover_token) :
                      /\ reply.status = 200
                      /\ reply.body[1].message = entry.current_message

\* C15: the entries of the listing come in descending order of the
\* report_time of their submission events: an entry has a report_time
\* greater than or equal to that of every entry after it.
C15_DescendingReportTime ==
    Listed =>
        \A i, j \in 1..Len(last.body) :
            i < j => DocById(last.body[i].id).report_time >=
                     DocById(last.body[j].id).report_time

\* C15 witness: a listing of two entries whose submission events differ in
\* report_time, the later one first.
C15_Witness ==
    /\ Listed
    /\ Len(last.body) = 2
    /\ last.body[1].report_time > last.body[2].report_time

\* the candidates of the listing that pass the matcher, of one token
Qualifying(release, token) ==
    {d \in ListQuery(store, release) :
        /\ d.params.handover_token = token
        /\ valid_handover(d, release) = Returns(TRUE)}

\* C16 as stated: for every token the listing has exactly as many entries
\* as the token has qualifying submission events, and all the entries of
\* one token carry the same current_message.
C16_OneEntryPerEventSameMessage ==
    Listed =>
        \A token \in Tokens :
            LET entries == {i \in 1..Len(last.body) : last.body[i].handover_token = token}
            IN  /\ Cardinality(entries) = Cardinality(Qualifying(last.release, token))
                /\ \A i, j \in entries :
                      last.body[i].current_message = last.body[j].current_message

\* C18: a purge of token T leaves no document of T in the index, and
\* leaves every document of every other token in it as it was; it adds
\* nothing.
C18_PurgeFrame ==
    [][last'.op = "delete_handover" =>
          /\ \A d \in store' : d.params.handover_token # last'.token
          /\ \A d \in store : d.params.handover_token # last'.token => d \in store'
          /\ store' \subseteq store]_vars

\* C18 witness: a purge removed documents of its token while the index
\* holds a document of the other token.
C18_Witness ==
    /\ last.op = "delete_handover"
    /\ last.status = 200
    /\ purged[last.token].types # {}
    /\ store # {}

\* C19 as stated: a purge of T right after a purge of T leaves the index
\* as the first left it, and a purge of a token without documents answers
\* 200 and leaves the index as it was.
C19_PurgeAlwaysSucceeds ==
    [][last'.op = "delete_handover" =>
          /\ (last.op = "delete_handover" /\ last.token = last'.token) => store' = store
          /\ (\A d \in store : d.params.handover_token # last'.token) =>
                (last'.status = 200 /\ store' = store)]_vars

\* C19 amended: a purge of T right after a purge of T leaves the index as
\* the first left it; a purge of a token without documents leaves the
\* index as it was, and answers 200 when the index exists and 404 when
\* the index was never created.
C19_PurgeIdempotent ==
    [][last'.op = "delete_handover" =>
          /\ (last.op = "delete_handover" /\ last.token = last'.token) => store' = store
          /\ (\A d \in store : d.params.handover_token # last'.token) =>
                /\ store' = store
                /\ last'.status = IF index_exists THEN 200 ELSE 404]_vars

\* C19 witness: a purge that found no document of its token answered 200
\* on an index holding a document of the other token.
C19_Witness ==
    /\ last.op = "delete_handover"
    /\ last.status = 200
    /\ purged[last.token].done
    /\ purged[last.token].types = {}
    /\ store # {}

\* C20 as stated: the answer of a status query that ran while writers
\* appended events is an answer the query gives when both its searches see
\* one and the same index contents, for some contents the index had
\* between the beginning and the end of the call.
C20_AnswerOfOneInstant ==
    (/\ call.op = "handover_result"
     /\ call.pc \in {"done", "failed"}
     /\ last.op = "handover_result") => last \in seen

\* C17: when a search made for the listing fails, whether the search for
\* the candidates or a search for the events of one candidate, the call is
\* answered with an error status and without any entry, whatever entries
\* had been assembled.
C17_FailedListingReturnsNothing ==
    (/\ call.op = "handover_results"
     /\ call.pc = "failed"
     /\ last.op = "handover_results") =>
        (last.status \notin {200} /\ last.body = <<>>)

\* C17 witness: the listing failed at the search for the events of a
\* candidate after the entry of an earlier candidate had been assembled.
C17_Witness ==
    /\ call.op = "handover_results"
    /\ call.pc = "failed"
    /\ Len(call.list_handovers) > 0
    /\ call.hits # <<>>
    /\ last.op = "handover_results"
    /\ last.status = 503

\* where the run of digits that ends at s[e] begins (e + 1 when s[e] is no
\* digit)
RECURSIVE DigitsStart(_, _)
DigitsStart(s, e) ==
    IF e >= 1 /\ s[e] \in Digits THEN DigitsStart(s, e - 1) ELSE e + 1

\* the _<digits> segments that end s at position e, read from the end: the
\* digits of each, in the order of the identifier
RECURSIVE TrailingRun(_, _)
TrailingRun(s, e) ==
    LET j == DigitsStart(s, e)
    IN  IF j <= e /\ j >= 2 /\ s[j - 1] = "_"
        THEN Append(TrailingRun(s, j - 2), SubSeq(s, j, e))
        ELSE <<>>

Example40_93_4 == <<"a">> \o <<"_", "4", "0">> \o <<"_", "9", "3">> \o <<"_", "4">>

\* C24: on an identifier that ends with a run of _<digits> segments, first
\* is the third-from-last segment of the run (the earliest one when the
\* run has fewer than three), second is the segment right after first, and
\* the answer depends on first, second and the release only; a_40_93_4
\* matches 40 (exact) and 93 (offset 53) and does not match 4.
C24_SegmentSelection ==
    Matched =>
        LET src_uri == MatchedDoc.params.src_uri
            match == re_match(src_uri)
            run == TrailingRun(src_uri, Len(src_uri))
            n == IF Len(run) < 3 THEN Len(run) ELSE 3
            first == run[Len(run) - n + 1]
            second == run[Len(run) - n + 2]
        IN  /\ Len(run) >= 1 =>
                  /\ match.matched
                  /\ match.first = first
                  /\ match.has_second = (n >= 2)
                  /\ n >= 2 => match.second = second
                  /\ last.body[1] =
                        Returns(\/ first = last.release
                                \/ /\ n >= 2
                                   /\ second = last.release
                                   /\ int(second) - int(first) = 53)
            /\ src_uri = Example40_93_4 =>
                  last.body[1] = Returns(last.release \in {<<"4", "0">>, Str93})

\* uri has a segment equal to release: the release between an underscore
\* and the end of uri or another underscore
HasSegment(uri, release) ==
    \E i \in 1..Len(uri) :
        /\ uri[i] = "_"
        /\ i + Len(release) <= Len(uri)
        /\ SubSeq(uri, i + 1, i + Len(release)) = release
        /\ (i + Len(release) = Len(uri) \/ uri[i + Len(release) + 1] = "_")

\* C23 as stated: every entry of the listing is made from an event whose
\* message begins with "Handling", whose tgt_uri has a segment equal to the
\* release asked, and whose src_uri passes the matcher.
C23_ThreeFilters ==
    Listed =>
        \A i \in 1..Len(last.body) :
            LET doc == DocById(last.body[i].id)
            IN  /\ doc.message[1] = "Handling"
                /\ HasSegment(doc.params.tgt_uri, last.release)
                /\ valid_handover(doc, last.release) = Returns(TRUE)

\* C22: the listing has at most one page of entries, and every entry comes
\* from a candidate that fewer than one page of candidates are more recent
\* than: the page is cut from the candidates before the matcher is
\* applied (the page is MaxPage in SpecPage, 1000 in the code).
C22_PageCutBeforeMatcher ==
    Listed =>
        /\ Len(last.body) <= MaxPage
        /\ \A i \in 1..Len(last.body) :
              LET doc == DocById(last.body[i].id)
              IN  Cardinality({c \in ListQuery(store, last.release) :
                                  c.report_time > doc.report_time}) < MaxPage

\* C22 witness: a submission that passes the matcher is not listed, the
\* page being taken by more recent candidates that the matcher rejects.
C22_Witness ==
    /\ Listed
    /\ \E d \in ListQuery(store, last.release) :
          /\ valid_handover(d, last.release) = Returns(TRUE)
          /\ \A i \in 1..Len(last.body) : last.body[i].id # d._id
          /\ Cardinality({c \in ListQuery(store, last.release) :
                              /\ c.report_time > d.report_time
                              /\ valid_handover(c, last.release) = Returns(FALSE)}) >= MaxPage

\* C25 as stated: every entry of a listing that ran while events were
\* appended and tokens purged carries a current_message; no entry is made
\* for a candidate whose token had no event left when its events were
\* searched for.
C25_EveryEntryHasCurrentMessage ==
    (/\ call.op = "handover_results"
     /\ call.pc = "done"
     /\ Listed) =>
        \A i \in 1..Len(last.body) : Has(last.body[i], "current_message")

\* the job-result requests served
JobServed == {t \in Threads : threads[t].op = "job_result" /\ threads[t].pc = "done"}

\* C21: a job-result request whose format is given and is neither email
\* nor failures is answered with an error status and makes no call on the
\* Job Queue; format absent is dispatched to the plain result, email to
\* the email report and failures to the failure messages, each of which
\* calls the Job Queue.
C21_FormatDispatch ==
    \A t \in JobServed :
        LET request == threads[t]
        IN  IF request.fmt \in {<<>>, <<"email">>, <<"failures">>}
            THEN /\ request.calls # <<>>
                 /\ request.reply.kind =
                       CASE request.fmt = <<>> -> "result"
                         [] request.fmt = <<"email">> -> "email"
                         [] request.fmt = <<"failures">> -> "failures"
            ELSE /\ request.reply.code >= 400
                 /\ request.reply.kind = "error"
                 /\ request.calls = <<>>
                 /\ request.got = NoHive

\* C21 witness: a request with the format given as the empty string was
\* answered with an error and no Job Queue call, before any Job Queue
\* client was constructed.
C21_Witness ==
    \E t \in JobServed :
        /\ threads[t].fmt = <<"">>
        /\ threads[t].reply.code = 500
        /\ threads[t].calls = <<>>
        /\ hive[threads[t].app] = NoHive

\* C26 as stated: in each application at most one HiveInstance is ever
\* constructed, and every call of get_hive() returns that instance.
C26_HiveSingleton ==
    \A a \in Apps :
        /\ instances[a] <= 1
        /\ \A t \in Threads :
              (threads[t].op = "get_hive" /\ threads[t].pc = "done" /\ threads[t].app = a)
                  => threads[t].got = 1

====
